---- MODULE Spec2Model ----
(***************************************************************************)
(* Asteroid Impact Simulator (src/app.py): a Streamlit script that is run  *)
(* from top to bottom once when the page opens and once more after every   *)
(* widget change.  The widgets' values are the only state that survives a  *)
(* run; everything else is recomputed by the run.                          *)
(*                                                                         *)
(* Python floats are IEEE-754 binary64.  They are modelled bit for bit:    *)
(* a float is a record [s, e, hi, lo] of value (-1)^s * m * 2^e with the   *)
(* 53-bit significand m = hi * 2^28 + lo, 2^52 <= m < 2^53, or m = 0.      *)
(* Every arithmetic operation rounds to nearest, ties to even, as the      *)
(* hardware does.  All values of the program lie far inside the normal     *)
(* range (about 1e-17 .. 1e23), so subnormals, infinities and NaN are not  *)
(* represented.                                                            *)
(***************************************************************************)
EXTENDS Integers, Sequences, FiniteSets, TLC

VARIABLES
    diameter, velocity, density,        \* tab1 sliders (int)
    impact_lat, impact_lon,             \* tab3 number inputs (float)
    delta_v, lead_time,                 \* tab4 sliders (int)
    mass, energy_joules, energy_megatons, \* tab1 results (float)
    severity,                           \* tab2: which message box is shown
    values,                             \* tab2: the pie chart's three values
    deck,                               \* tab3: the map
    orbit_fig,                          \* tab3: the traces of the 3D figure
    mitigation                          \* tab4: which message box is shown

inputs == <<diameter, velocity, density, impact_lat, impact_lon, delta_v, lead_time>>
outputs == <<mass, energy_joules, energy_megatons, severity, values, deck, orbit_fig, mitigation>>
vars == <<inputs, outputs>>

----------------------------------------------------------------------------
(* binary64 arithmetic *)

\* The significand is held in two words of 28 and 25 bits.
Word == 2^28
\* Multiplication splits the significand into four 14-bit limbs.
Limb == 2^14

Float(s, e, hi, lo) == [s |-> s, e |-> e, hi |-> hi, lo |-> lo]

Zero == Float(0, 0, 0, 0)

IsZero(x) == x.hi = 0 /\ x.lo = 0

RECURSIVE BitLen(_)
BitLen(n) == IF n = 0 THEN 0 ELSE 1 + BitLen(n \div 2)

\* int -> float, exact for every |i| < 2^31 (float(i) in Python).
FromInt(i) ==
    LET a == IF i < 0 THEN -i ELSE i
        k == 53 - BitLen(a)
    IN  IF i = 0 THEN Zero
        ELSE IF k >= 28
             THEN Float(IF i < 0 THEN 1 ELSE 0, -k, a * 2^(k - 28), 0)
             ELSE Float(IF i < 0 THEN 1 ELSE 0, -k,
                        a \div 2^(28 - k), (a % 2^(28 - k)) * 2^k)

\* Round to nearest, ties to even: the 53-bit significand hi:lo, the bit
\* below it (guard) and whether anything nonzero lies below that (sticky).
RoundPack(s, e, hi, lo, guard, sticky) ==
    LET up  == guard = 1 /\ (sticky \/ lo % 2 = 1)
        lo1 == IF up THEN lo + 1 ELSE lo
        lo2 == lo1 % Word
        hi2 == hi + lo1 \div Word
    IN  IF hi2 = 2^25 THEN Float(s, e + 1, 2^24, 0)
        ELSE Float(s, e, hi2, lo2)

\* x * y, correctly rounded.
FloatMul(x, y) ==
    LET s  == (x.s + y.s) % 2
        a0 == x.lo % Limb  a1 == x.lo \div Limb
        a2 == x.hi % Limb  a3 == x.hi \div Limb
        b0 == y.lo % Limb  b1 == y.lo \div Limb
        b2 == y.hi % Limb  b3 == y.hi \div Limb
        \* the 106-bit product, limb by limb
        t0 == a0 * b0
        t1 == a0 * b1 + a1 * b0 + t0 \div Limb
        t2 == a0 * b2 + a1 * b1 + a2 * b0 + t1 \div Limb
        t3 == a0 * b3 + a1 * b2 + a2 * b1 + a3 * b0 + t2 \div Limb
        t4 == a1 * b3 + a2 * b2 + a3 * b1 + t3 \div Limb
        t5 == a2 * b3 + a3 * b2 + t4 \div Limb
        t6 == a3 * b3 + t5 \div Limb
        d0 == t0 % Limb  d1 == t1 % Limb  d2 == t2 % Limb  d3 == t3 % Limb
        d4 == t4 % Limb  d5 == t5 % Limb  d6 == t6 % Limb  d7 == t6 \div Limb
        \* the product has 106 bits (bit 105 set) or 105 bits
        sh == IF d7 >= 2^7 THEN 11 ELSE 10
        p4 == 14 - sh
        lo == d3 \div 2^sh + d4 * 2^p4 + (d5 % 2^sh) * 2^(p4 + 14)
        hi == d5 \div 2^sh + d6 * 2^p4 + d7 * 2^(p4 + 14)
        guard  == (d3 \div 2^(sh - 1)) % 2
        sticky == d3 % 2^(sh - 1) # 0 \/ d2 # 0 \/ d1 # 0 \/ d0 # 0
    IN  IF IsZero(x) \/ IsZero(y) THEN Float(s, 0, 0, 0)
        ELSE RoundPack(s, x.e + y.e + 42 + sh, hi, lo, guard, sticky)

\* Binary long division by the significand b.  st holds the remainder
\* (rhi:rlo) and the quotient bits found so far (qhi:qlo); DivLoop makes n
\* steps, each of which doubles the remainder (to thi:tlo), subtracts b from
\* it if it can and shifts the new bit into the quotient (DivBit).
RECURSIVE DivLoop(_, _, _)
RECURSIVE DivBit(_, _, _, _, _, _)
DivBit(n, thi, tlo, qhi, ql, b) ==
    IF thi > b.hi \/ (thi = b.hi /\ tlo >= b.lo)
    THEN DivLoop(n, [rhi |-> thi - b.hi - (IF tlo < b.lo THEN 1 ELSE 0),
                     rlo |-> IF tlo < b.lo THEN tlo - b.lo + Word ELSE tlo - b.lo,
                     qhi |-> qhi, qlo |-> ql + 1], b)
    ELSE DivLoop(n, [rhi |-> thi, rlo |-> tlo, qhi |-> qhi, qlo |-> ql], b)

DivLoop(n, st, b) ==
    IF n = 0 THEN st
    ELSE DivBit(n - 1,
                2 * st.rhi + (2 * st.rlo) \div Word, (2 * st.rlo) % Word,
                2 * st.qhi + (2 * st.qlo) \div Word, (2 * st.qlo) % Word, b)

\* The quotient's 53 bits q, then its guard bit and the remainder below it.
DivRound(s, e, q, g) ==
    RoundPack(s, e, q.qhi, q.qlo, g.qlo, g.rhi # 0 \/ g.rlo # 0)

DivPack(s, e, q, y) ==
    DivRound(s, e, q, DivLoop(1, [q EXCEPT !.qhi = 0, !.qlo = 0], y))

\* x / y, correctly rounded (y is never zero in the program).
FloatDiv(x, y) ==
    IF IsZero(x) THEN Float((x.s + y.s) % 2, 0, 0, 0)
    ELSE IF x.hi > y.hi \/ (x.hi = y.hi /\ x.lo >= y.lo)
    THEN \* the quotient of the significands is in [1, 2): its first bit is 1
         DivPack((x.s + y.s) % 2, x.e - y.e - 52,
                 DivLoop(52, [rhi |-> x.hi - y.hi - (IF x.lo < y.lo THEN 1 ELSE 0),
                              rlo |-> IF x.lo < y.lo THEN x.lo - y.lo + Word
                                                     ELSE x.lo - y.lo,
                              qhi |-> 0, qlo |-> 1], y), y)
    ELSE \* it is in (1/2, 1)
         DivPack((x.s + y.s) % 2, x.e - y.e - 53,
                 DivLoop(53, [rhi |-> x.hi, rlo |-> x.lo, qhi |-> 0, qlo |-> 0], y), y)

\* |x| < |y|
MagLess(x, y) ==
    IF IsZero(y) THEN FALSE
    ELSE IF IsZero(x) THEN TRUE
    ELSE x.e < y.e \/ (x.e = y.e /\ (x.hi < y.hi \/ (x.hi = y.hi /\ x.lo < y.lo)))

\* x < y
FloatLess(x, y) ==
    IF IsZero(x) /\ IsZero(y) THEN FALSE
    ELSE IF x.s = 0 /\ y.s = 0 THEN MagLess(x, y)
    ELSE IF x.s = 1 /\ y.s = 1 THEN MagLess(y, x)
    ELSE x.s = 1 /\ ~(IsZero(x) /\ IsZero(y))

\* x == y (0.0 == -0.0)
FloatEq(x, y) == (IsZero(x) /\ IsZero(y)) \/ x = y

FloatLeq(x, y) == FloatLess(x, y) \/ FloatEq(x, y)

\* Python's min(a, b): b if b < a, else a.
Min(a, b) == IF FloatLess(b, a) THEN b ELSE a

\* A decimal literal with one digit after the point (12.1, -86.3, 0.7):
\* the float nearest to n / 10.
Tenths(n) == FloatDiv(FromInt(n), FromInt(10))

\* The neighbouring floats of a positive float.
NextUp(x) ==
    IF x.lo + 1 < Word THEN Float(x.s, x.e, x.hi, x.lo + 1)
    ELSE IF x.hi + 1 < 2^25 THEN Float(x.s, x.e, x.hi + 1, 0)
    ELSE Float(x.s, x.e + 1, 2^24, 0)

NextDown(x) ==
    IF x.hi = 2^24 /\ x.lo = 0 THEN Float(x.s, x.e - 1, 2^25 - 1, Word - 1)
    ELSE IF x.lo = 0 THEN Float(x.s, x.e, x.hi - 1, Word - 1)
    ELSE Float(x.s, x.e, x.hi, x.lo - 1)

----------------------------------------------------------------------------
(* the widgets *)

DiameterMin == 10
DiameterMax == 2000
DiameterDefault == 300
VelocityMin == 5
VelocityMax == 40
VelocityDefault == 20
DensityMin == 500
DensityMax == 8000
DensityDefault == 3000
DeltaVMin == 0
DeltaVMax == 50
DeltaVDefault == 0
LeadTimeMin == 0
LeadTimeMax == 10
LeadTimeDefault == 2

LatMin == FromInt(-90)
LatMax == FromInt(90)
LatDefault == Tenths(121)
LonMin == FromInt(-180)
LonMax == FromInt(180)
LonDefault == Tenths(-863)

----------------------------------------------------------------------------
(* tab1: Asteroid Parameters *)

\* math.pi = 0x1.921fb54442d18p+1
Pi == Float(0, -51, 26353589, 71576856)

\* 4/3, a float division of two ints
FourThirds == FloatDiv(FromInt(4), FromInt(3))

\* the literal 0.5
Half == FloatDiv(FromInt(1), FromInt(2))

\* the literal 4.184e15 = 4184 * 10^6 * 10^6, an integer below 2^53 and so
\* a float exactly (both products are exact).
MegatonJoules == FloatMul(FloatMul(FromInt(4184), FromInt(1000000)), FromInt(1000000))

\* x ** 3 for a float x.  pow() returns the correctly rounded cube; for the
\* slider's radius (a multiple of 1/2 below 2^10) the cube is a float exactly
\* and both multiplications are exact.
Cube(x) == FloatMul(FloatMul(x, x), x)

\* A variant with integer division: diameter // 2.
radiusFloor(d) == FromInt(d \div 2)

\* radius = diameter / 2
radius(d) == FloatDiv(FromInt(d), FromInt(2))

\* volume = (4/3) * math.pi * (radius ** 3)
volume(d) == FloatMul(FloatMul(FourThirds, Pi), Cube(radius(d)))

\* mass = volume * density
massOf(d, rho) == FloatMul(volume(d), FromInt(rho))

\* vel_ms = velocity * 1000, an int
vel_ms(v) == v * 1000

\* A variant without the factor 0.5: mass * (vel_ms ** 2).
energyJoulesNoHalf(m, v) == FloatMul(m, FromInt(vel_ms(v) * vel_ms(v)))

\* energy_joules = 0.5 * mass * (vel_ms ** 2): 0.5 * mass first; vel_ms ** 2
\* is an int (at most 1.6e9) that becomes a float exactly.
energyJoules(m, v) ==
    FloatMul(FloatMul(Half, m), FromInt(vel_ms(v) * vel_ms(v)))

\* energy_megatons = energy_joules / 4.184e15
energyMegatons(ej) == FloatDiv(ej, MegatonJoules)

impactOfEnergy(m, ej) ==
    [mass |-> m, energy_joules |-> ej, energy_megatons |-> energyMegatons(ej)]

impactOfMass(m, v) == impactOfEnergy(m, energyJoules(m, v))

\* The calculations of tab1; d, v, rho are the sliders' ints.
computeImpact(d, v, rho) == impactOfMass(massOf(d, rho), v)

----------------------------------------------------------------------------
(* tab2: Impact Analysis *)

MessageBox(kind, text) == [kind |-> kind, text |-> text]

\* nothing rendered yet
NotShown == MessageBox("none", "")

\* A variant whose comparisons are <= instead of <.
classifySeverityInclusive(e) ==
    IF FloatLeq(e, FromInt(100))
    THEN MessageBox("success", "Regional damage expected")
    ELSE IF FloatLeq(e, FromInt(10000))
         THEN MessageBox("warning", "Severe continental effects likely")
         ELSE MessageBox("error", "Global catastrophe likely")

\* A variant whose second threshold is 1000, the pie chart's second divisor.
classifySeverityThousand(e) ==
    IF FloatLess(e, FromInt(100))
    THEN MessageBox("success", "Regional damage expected")
    ELSE IF FloatLess(e, FromInt(1000))
         THEN MessageBox("warning", "Severe continental effects likely")
         ELSE MessageBox("error", "Global catastrophe likely")

\* The if / elif / else that picks the message box; e is energy_megatons.
classifySeverity(e) ==
    IF FloatLess(e, FromInt(100))
    THEN MessageBox("success", "Regional damage expected")
    ELSE IF FloatLess(e, FromInt(10000))
         THEN MessageBox("warning", "Severe continental effects likely")
         ELSE MessageBox("error", "Global catastrophe likely")

\* A variant without the min(..., 100).
effectValuesUnclamped(e) ==
    << FloatDiv(e, FromInt(100)), FloatDiv(e, FromInt(1000)), FloatDiv(e, FromInt(10000)) >>

\* A variant with the first two divisors exchanged.
effectValuesSwapped(e) ==
    << Min(FloatDiv(e, FromInt(1000)), FromInt(100)),
       Min(FloatDiv(e, FromInt(100)), FromInt(100)),
       Min(FloatDiv(e, FromInt(10000)), FromInt(100)) >>

\* The pie chart's values: local, continental and global effects.
effectValues(e) ==
    << Min(FloatDiv(e, FromInt(100)), FromInt(100)),
       Min(FloatDiv(e, FromInt(1000)), FromInt(100)),
       Min(FloatDiv(e, FromInt(10000)), FromInt(100)) >>

----------------------------------------------------------------------------
(* tab3: Visualizations *)

\* The map: one marker at the chosen place, the view centred on it.
makeDeck(lat, lon) ==
    [view_state |-> [latitude |-> lat, longitude |-> lon, zoom |-> 5, pitch |-> 45],
     layers |-> << [type |-> "ScatterplotLayer",
                    data |-> << [lat |-> lat, lon |-> lon] >>,
                    get_position |-> <<"lon", "lat">>,
                    get_color |-> <<200, 30, 30>>,
                    get_radius |-> 50000] >>,
     tooltip |-> "Estimated impact location"]

NoDeck == [layers |-> << >>]

\* math.cos(math.radians(t)) and math.sin(math.radians(t)) for the integer
\* degrees t = 0 .. 359, as <<s, e, hi, lo>>: the values the C library
\* returns (radians(t) = t * (pi / 180) rounded, so radians(90) is not
\* pi / 2 and its cosine is 6.1e-17, not 0).
CosTable ==
    << <<0, -52, 16777216, 0>>, <<0, -53, 33549321, 133541770>>, <<0, -53, 33533991, 146736487>>,
       <<0, -53, 33508446, 219342365>>, <<0, -53, 33472695, 24182774>>, <<0, -53, 33426747, 68687266>>,
       <<0, -53, 33370617, 83388358>>, <<0, -53, 33304322, 94518923>>, <<0, -53, 33227882, 154178682>>,
       <<0, -53, 33141321, 70247516>>, <<0, -53, 33044664, 209787927>>, <<0, -53, 32937942, 154711746>>,
       <<0, -53, 32821187, 41549952>>, <<0, -53, 32694434, 21923599>>, <<0, -53, 32557721, 259635749>>,
       <<0, -53, 32411092, 122208021>>, <<0, -53, 32254590, 56523648>>, <<0, -53, 32088262, 242998047>>,
       <<0, -53, 31912161, 54809855>>, <<0, -53, 31726338, 201241803>>, <<0, -53, 31530852, 38939932>>,
       <<0, -53, 31325760, 251639813>>, <<0, -53, 31111127, 160942936>>, <<0, -53, 30887017, 137127535>>,
       <<0, -53, 30653498, 251625365>>, <<0, -53, 30410643, 3004263>>, <<0, -53, 30158523, 190200010>>,
       <<0, -53, 29897217, 222112877>>, <<0, -53, 29626804, 258811656>>, <<0, -53, 29347367, 131283398>>,
       <<0, -53, 29058990, 140004523>>, <<0, -53, 28761761, 242674398>>, <<0, -53, 28455772, 47032645>>,
       <<0, -53, 28141114, 145633244>>, <<0, -53, 27817884, 229174948>>, <<0, -53, 27486181, 152405831>>,
       <<0, -53, 27146105, 194507944>>, <<0, -53, 26797760, 245529108>>, <<0, -53, 26441253, 66347985>>,
       <<0, -53, 26076691, 85304104>>, <<0, -53, 25704186, 47140921>>, <<0, -53, 25323851, 77667383>>,
       <<0, -53, 24935802, 137608898>>, <<0, -53, 24540158, 13134210>>, <<0, -53, 24137038, 111496505>>,
       <<0, -53, 23726566, 109001677>>, <<0, -53, 23308867, 14709520>>, <<0, -53, 22884067, 160209963>>,
       <<0, -53, 22452297, 115477464>>, <<0, -53, 22013688, 20467668>>, <<0, -53, 21568373, 37492253>>,
       <<0, -53, 21116488, 71858878>>, <<0, -53, 20658171, 29215033>>, <<0, -53, 20193561, 72728247>>,
       <<0, -53, 19722800, 74799710>>, <<0, -53, 19246031, 142363001>>, <<0, -53, 18763400, 68287762>>,
       <<0, -53, 18275053, 124811037>>, <<0, -53, 17781139, 246209834>>, <<0, -53, 17281810, 16637715>>,
       <<0, -53, 16777216, 1>>, <<0, -54, 32535022, 233808110>>, <<0, -54, 31505703, 69488762>>,
       <<0, -54, 30466786, 189062657>>, <<0, -54, 29418589, 180225481>>, <<0, -54, 28361431, 121083987>>,
       <<0, -54, 27295634, 17177297>>, <<0, -54, 26221522, 43581354>>, <<0, -54, 25139422, 249927296>>,
       <<0, -54, 24049665, 265212734>>, <<0, -54, 22952583, 76155895>>, <<0, -54, 21848509, 52701>>,
       <<0, -54, 20737779, 120580432>>, <<0, -54, 19620732, 260298184>>, <<0, -54, 18497709, 221417001>>,
       <<0, -54, 17369052, 26412688>>, <<0, -55, 32470207, 48544027>>, <<0, -55, 30192419, 114148978>>,
       <<0, -55, 27905434, 205674746>>, <<0, -55, 25609949, 225862227>>, <<0, -55, 23306663, 235631500>>,
       <<0, -55, 20996278, 128471927>>, <<0, -55, 18679497, 109944346>>, <<0, -56, 32714052, 206529236>>,
       <<0, -56, 28059145, 188503915>>, <<0, -56, 23395691, 146964736>>, <<0, -56, 18725110, 225071395>>,
       <<0, -57, 28097652, 149932321>>, <<0, -57, 18736524, 167238711>>, <<0, -58, 18739378, 193584439>>,
       <<0, -106, 18506339, 51665927>>, <<1, -58, 18739378, 193584404>>, <<1, -57, 18736524, 167238693>>,
       <<1, -57, 28097652, 149932303>>, <<1, -56, 18725110, 225071402>>, <<1, -56, 23395691, 146964743>>,
       <<1, -56, 28059145, 188503922>>, <<1, -56, 32714052, 206529227>>, <<1, -55, 18679497, 109944342>>,
       <<1, -55, 20996278, 128471923>>, <<1, -55, 23306663, 235631496>>, <<1, -55, 25609949, 225862223>>,
       <<1, -55, 27905434, 205674742>>, <<1, -55, 30192419, 114148982>>, <<1, -55, 32470207, 48544031>>,
       <<1, -54, 17369052, 26412690>>, <<1, -54, 18497709, 221416999>>, <<1, -54, 19620732, 260298182>>,
       <<1, -54, 20737779, 120580430>>, <<1, -54, 21848509, 52699>>, <<1, -54, 22952583, 76155893>>,
       <<1, -54, 24049665, 265212732>>, <<1, -54, 25139422, 249927298>>, <<1, -54, 26221522, 43581355>>,
       <<1, -54, 27295634, 17177298>>, <<1, -54, 28361431, 121083985>>, <<1, -54, 29418589, 180225482>>,
       <<1, -54, 30466786, 189062655>>, <<1, -54, 31505703, 69488763>>, <<1, -54, 32535022, 233808108>>,
       <<1, -54, 33554431, 268435452>>, <<1, -53, 17281810, 16637716>>, <<1, -53, 17781139, 246209833>>,
       <<1, -53, 18275053, 124811037>>, <<1, -53, 18763400, 68287761>>, <<1, -53, 19246031, 142363001>>,
       <<1, -53, 19722800, 74799709>>, <<1, -53, 20193561, 72728247>>, <<1, -53, 20658171, 29215033>>,
       <<1, -53, 21116488, 71858876>>, <<1, -53, 21568373, 37492253>>, <<1, -53, 22013688, 20467667>>,
       <<1, -53, 22452297, 115477464>>, <<1, -53, 22884067, 160209962>>, <<1, -53, 23308867, 14709521>>,
       <<1, -53, 23726566, 109001676>>, <<1, -53, 24137038, 111496505>>, <<1, -53, 24540158, 13134210>>,
       <<1, -53, 24935802, 137608896>>, <<1, -53, 25323851, 77667383>>, <<1, -53, 25704186, 47140920>>,
       <<1, -53, 26076691, 85304104>>, <<1, -53, 26441253, 66347985>>, <<1, -53, 26797760, 245529109>>,
       <<1, -53, 27146105, 194507943>>, <<1, -53, 27486181, 152405832>>, <<1, -53, 27817884, 229174948>>,
       <<1, -53, 28141114, 145633243>>, <<1, -53, 28455772, 47032645>>, <<1, -53, 28761761, 242674397>>,
       <<1, -53, 29058990, 140004523>>, <<1, -53, 29347367, 131283398>>, <<1, -53, 29626804, 258811656>>,
       <<1, -53, 29897217, 222112876>>, <<1, -53, 30158523, 190200010>>, <<1, -53, 30410643, 3004263>>,
       <<1, -53, 30653498, 251625364>>, <<1, -53, 30887017, 137127535>>, <<1, -53, 31111127, 160942935>>,
       <<1, -53, 31325760, 251639813>>, <<1, -53, 31530852, 38939931>>, <<1, -53, 31726338, 201241803>>,
       <<1, -53, 31912161, 54809855>>, <<1, -53, 32088262, 242998048>>, <<1, -53, 32254590, 56523648>>,
       <<1, -53, 32411092, 122208020>>, <<1, -53, 32557721, 259635749>>, <<1, -53, 32694434, 21923598>>,
       <<1, -53, 32821187, 41549952>>, <<1, -53, 32937942, 154711746>>, <<1, -53, 33044664, 209787927>>,
       <<1, -53, 33141321, 70247515>>, <<1, -53, 33227882, 154178682>>, <<1, -53, 33304322, 94518923>>,
       <<1, -53, 33370617, 83388358>>, <<1, -53, 33426747, 68687266>>, <<1, -53, 33472695, 24182774>>,
       <<1, -53, 33508446, 219342365>>, <<1, -53, 33533991, 146736487>>, <<1, -53, 33549321, 133541770>>,
       <<1, -52, 16777216, 0>>, <<1, -53, 33549321, 133541770>>, <<1, -53, 33533991, 146736487>>,
       <<1, -53, 33508446, 219342365>>, <<1, -53, 33472695, 24182774>>, <<1, -53, 33426747, 68687266>>,
       <<1, -53, 33370617, 83388358>>, <<1, -53, 33304322, 94518924>>, <<1, -53, 33227882, 154178681>>,
       <<1, -53, 33141321, 70247516>>, <<1, -53, 33044664, 209787927>>, <<1, -53, 32937942, 154711746>>,
       <<1, -53, 32821187, 41549951>>, <<1, -53, 32694434, 21923599>>, <<1, -53, 32557721, 259635749>>,
       <<1, -53, 32411092, 122208021>>, <<1, -53, 32254590, 56523648>>, <<1, -53, 32088262, 242998047>>,
       <<1, -53, 31912161, 54809856>>, <<1, -53, 31726338, 201241802>>, <<1, -53, 31530852, 38939932>>,
       <<1, -53, 31325760, 251639813>>, <<1, -53, 31111127, 160942936>>, <<1, -53, 30887017, 137127535>>,
       <<1, -53, 30653498, 251625365>>, <<1, -53, 30410643, 3004264>>, <<1, -53, 30158523, 190200009>>,
       <<1, -53, 29897217, 222112877>>, <<1, -53, 29626804, 258811655>>, <<1, -53, 29347367, 131283399>>,
       <<1, -53, 29058990, 140004522>>, <<1, -53, 28761761, 242674398>>, <<1, -53, 28455772, 47032646>>,
       <<1, -53, 28141114, 145633244>>, <<1, -53, 27817884, 229174950>>, <<1, -53, 27486181, 152405831>>,
       <<1, -53, 27146105, 194507945>>, <<1, -53, 26797760, 245529108>>, <<1, -53, 26441253, 66347986>>,
       <<1, -53, 26076691, 85304103>>, <<1, -53, 25704186, 47140921>>, <<1, -53, 25323851, 77667384>>,
       <<1, -53, 24935802, 137608898>>, <<1, -53, 24540158, 13134211>>, <<1, -53, 24137038, 111496504>>,
       <<1, -53, 23726566, 109001678>>, <<1, -53, 23308867, 14709520>>, <<1, -53, 22884067, 160209964>>,
       <<1, -53, 22452297, 115477463>>, <<1, -53, 22013688, 20467668>>, <<1, -53, 21568373, 37492254>>,
       <<1, -53, 21116488, 71858881>>, <<1, -53, 20658171, 29215031>>, <<1, -53, 20193561, 72728246>>,
       <<1, -53, 19722800, 74799711>>, <<1, -53, 19246031, 142363003>>, <<1, -53, 18763400, 68287760>>,
       <<1, -53, 18275053, 124811036>>, <<1, -53, 17781139, 246209835>>, <<1, -53, 17281810, 16637718>>,
       <<1, -53, 16777216, 4>>, <<1, -54, 32535022, 233808105>>, <<1, -54, 31505703, 69488760>>,
       <<1, -54, 30466786, 189062659>>, <<1, -54, 29418589, 180225486>>, <<1, -54, 28361431, 121083982>>,
       <<1, -54, 27295634, 17177295>>, <<1, -54, 26221522, 43581356>>, <<1, -54, 25139422, 249927302>>,
       <<1, -54, 24049665, 265212740>>, <<1, -54, 22952583, 76155890>>, <<1, -54, 21848509, 52699>>,
       <<1, -54, 20737779, 120580434>>, <<1, -54, 19620732, 260298190>>, <<1, -54, 18497709, 221416996>>,
       <<1, -54, 17369052, 26412686>>, <<1, -55, 32470207, 48544031>>, <<1, -55, 30192419, 114148990>>,
       <<1, -55, 27905434, 205674758>>, <<1, -55, 25609949, 225862216>>, <<1, -55, 23306663, 235631497>>,
       <<1, -55, 20996278, 128471931>>, <<1, -55, 18679497, 109944359>>, <<1, -56, 32714052, 206529213>>,
       <<1, -56, 28059145, 188503908>>, <<1, -56, 23395691, 146964744>>, <<1, -56, 18725110, 225071420>>,
       <<1, -57, 28097652, 149932370>>, <<1, -57, 18736524, 167238665>>, <<1, -58, 18739378, 193584410>>,
       <<1, -105, 27759508, 211716618>>, <<0, -58, 18739378, 193584304>>, <<0, -57, 18736524, 167238740>>,
       <<0, -57, 28097652, 149932318>>, <<0, -56, 18725110, 225071394>>, <<0, -56, 23395691, 146964718>>,
       <<0, -56, 28059145, 188503881>>, <<0, -56, 32714052, 206529250>>, <<0, -55, 18679497, 109944346>>,
       <<0, -55, 20996278, 128471918>>, <<0, -55, 23306663, 235631484>>, <<0, -55, 25609949, 225862234>>,
       <<0, -55, 27905434, 205674745>>, <<0, -55, 30192419, 114148978>>, <<0, -55, 32470207, 48544019>>,
       <<0, -54, 17369052, 26412680>>, <<0, -54, 18497709, 221417005>>, <<0, -54, 19620732, 260298183>>,
       <<0, -54, 20737779, 120580428>>, <<0, -54, 21848509, 52693>>, <<0, -54, 22952583, 76155898>>,
       <<0, -54, 24049665, 265212734>>, <<0, -54, 25139422, 249927296>>, <<0, -54, 26221522, 43581350>>,
       <<0, -54, 27295634, 17177289>>, <<0, -54, 28361431, 121083990>>, <<0, -54, 29418589, 180225480>>,
       <<0, -54, 30466786, 189062654>>, <<0, -54, 31505703, 69488754>>, <<0, -54, 32535022, 233808113>>,
       <<0, -53, 16777216, 1>>, <<0, -53, 17281810, 16637715>>, <<0, -53, 17781139, 246209832>>,
       <<0, -53, 18275053, 124811033>>, <<0, -53, 18763400, 68287764>>, <<0, -53, 19246031, 142363000>>,
       <<0, -53, 19722800, 74799708>>, <<0, -53, 20193561, 72728243>>, <<0, -53, 20658171, 29215035>>,
       <<0, -53, 21116488, 71858878>>, <<0, -53, 21568373, 37492252>>, <<0, -53, 22013688, 20467666>>,
       <<0, -53, 22452297, 115477460>>, <<0, -53, 22884067, 160209964>>, <<0, -53, 23308867, 14709520>>,
       <<0, -53, 23726566, 109001675>>, <<0, -53, 24137038, 111496502>>, <<0, -53, 24540158, 13134212>>,
       <<0, -53, 24935802, 137608898>>, <<0, -53, 25323851, 77667382>>, <<0, -53, 25704186, 47140919>>,
       <<0, -53, 26076691, 85304101>>, <<0, -53, 26441253, 66347986>>, <<0, -53, 26797760, 245529108>>,
       <<0, -53, 27146105, 194507943>>, <<0, -53, 27486181, 152405829>>, <<0, -53, 27817884, 229174950>>,
       <<0, -53, 28141114, 145633244>>, <<0, -53, 28455772, 47032645>>, <<0, -53, 28761761, 242674396>>,
       <<0, -53, 29058990, 140004520>>, <<0, -53, 29347367, 131283399>>, <<0, -53, 29626804, 258811655>>,
       <<0, -53, 29897217, 222112876>>, <<0, -53, 30158523, 190200008>>, <<0, -53, 30410643, 3004264>>,
       <<0, -53, 30653498, 251625366>>, <<0, -53, 30887017, 137127534>>, <<0, -53, 31111127, 160942935>>,
       <<0, -53, 31325760, 251639811>>, <<0, -53, 31530852, 38939932>>, <<0, -53, 31726338, 201241803>>,
       <<0, -53, 31912161, 54809855>>, <<0, -53, 32088262, 242998046>>, <<0, -53, 32254590, 56523648>>,
       <<0, -53, 32411092, 122208021>>, <<0, -53, 32557721, 259635749>>, <<0, -53, 32694434, 21923598>>,
       <<0, -53, 32821187, 41549951>>, <<0, -53, 32937942, 154711746>>, <<0, -53, 33044664, 209787927>>,
       <<0, -53, 33141321, 70247515>>, <<0, -53, 33227882, 154178681>>, <<0, -53, 33304322, 94518924>>,
       <<0, -53, 33370617, 83388358>>, <<0, -53, 33426747, 68687266>>, <<0, -53, 33472695, 24182774>>,
       <<0, -53, 33508446, 219342365>>, <<0, -53, 33533991, 146736487>>, <<0, -53, 33549321, 133541770>> >>

SinTable ==
    << <<0, 0, 0, 0>>, <<0, -58, 18739378, 193584414>>, <<0, -57, 18736524, 167238695>>,
       <<0, -57, 28097652, 149932302>>, <<0, -56, 18725110, 225071400>>, <<0, -56, 23395691, 146964738>>,
       <<0, -56, 28059145, 188503916>>, <<0, -56, 32714052, 206529235>>, <<0, -55, 18679497, 109944345>>,
       <<0, -55, 20996278, 128471925>>, <<0, -55, 23306663, 235631497>>, <<0, -55, 25609949, 225862223>>,
       <<0, -55, 27905434, 205674742>>, <<0, -55, 30192419, 114148981>>, <<0, -55, 32470207, 48544029>>,
       <<0, -54, 17369052, 26412688>>, <<0, -54, 18497709, 221417001>>, <<0, -54, 19620732, 260298184>>,
       <<0, -54, 20737779, 120580431>>, <<0, -54, 21848509, 52700>>, <<0, -54, 22952583, 76155893>>,
       <<0, -54, 24049665, 265212732>>, <<0, -54, 25139422, 249927297>>, <<0, -54, 26221522, 43581355>>,
       <<0, -54, 27295634, 17177297>>, <<0, -54, 28361431, 121083987>>, <<0, -54, 29418589, 180225480>>,
       <<0, -54, 30466786, 189062656>>, <<0, -54, 31505703, 69488761>>, <<0, -54, 32535022, 233808109>>,
       <<0, -54, 33554431, 268435455>>, <<0, -53, 17281810, 16637715>>, <<0, -53, 17781139, 246209834>>,
       <<0, -53, 18275053, 124811037>>, <<0, -53, 18763400, 68287763>>, <<0, -53, 19246031, 142363000>>,
       <<0, -53, 19722800, 74799710>>, <<0, -53, 20193561, 72728246>>, <<0, -53, 20658171, 29215033>>,
       <<0, -53, 21116488, 71858877>>, <<0, -53, 21568373, 37492252>>, <<0, -53, 22013688, 20467668>>,
       <<0, -53, 22452297, 115477464>>, <<0, -53, 22884067, 160209963>>, <<0, -53, 23308867, 14709520>>,
       <<0, -53, 23726566, 109001676>>, <<0, -53, 24137038, 111496504>>, <<0, -53, 24540158, 13134210>>,
       <<0, -53, 24935802, 137608898>>, <<0, -53, 25323851, 77667383>>, <<0, -53, 25704186, 47140921>>,
       <<0, -53, 26076691, 85304104>>, <<0, -53, 26441253, 66347986>>, <<0, -53, 26797760, 245529108>>,
       <<0, -53, 27146105, 194507944>>, <<0, -53, 27486181, 152405831>>, <<0, -53, 27817884, 229174949>>,
       <<0, -53, 28141114, 145633244>>, <<0, -53, 28455772, 47032645>>, <<0, -53, 28761761, 242674398>>,
       <<0, -53, 29058990, 140004522>>, <<0, -53, 29347367, 131283398>>, <<0, -53, 29626804, 258811655>>,
       <<0, -53, 29897217, 222112876>>, <<0, -53, 30158523, 190200010>>, <<0, -53, 30410643, 3004263>>,
       <<0, -53, 30653498, 251625365>>, <<0, -53, 30887017, 137127535>>, <<0, -53, 31111127, 160942936>>,
       <<0, -53, 31325760, 251639813>>, <<0, -53, 31530852, 38939931>>, <<0, -53, 31726338, 201241802>>,
       <<0, -53, 31912161, 54809855>>, <<0, -53, 32088262, 242998047>>, <<0, -53, 32254590, 56523648>>,
       <<0, -53, 32411092, 122208021>>, <<0, -53, 32557721, 259635749>>, <<0, -53, 32694434, 21923599>>,
       <<0, -53, 32821187, 41549951>>, <<0, -53, 32937942, 154711746>>, <<0, -53, 33044664, 209787927>>,
       <<0, -53, 33141321, 70247516>>, <<0, -53, 33227882, 154178682>>, <<0, -53, 33304322, 94518923>>,
       <<0, -53, 33370617, 83388358>>, <<0, -53, 33426747, 68687266>>, <<0, -53, 33472695, 24182774>>,
       <<0, -53, 33508446, 219342365>>, <<0, -53, 33533991, 146736487>>, <<0, -53, 33549321, 133541770>>,
       <<0, -52, 16777216, 0>>, <<0, -53, 33549321, 133541770>>, <<0, -53, 33533991, 146736487>>,
       <<0, -53, 33508446, 219342365>>, <<0, -53, 33472695, 24182774>>, <<0, -53, 33426747, 68687266>>,
       <<0, -53, 33370617, 83388358>>, <<0, -53, 33304322, 94518924>>, <<0, -53, 33227882, 154178682>>,
       <<0, -53, 33141321, 70247516>>, <<0, -53, 33044664, 209787927>>, <<0, -53, 32937942, 154711746>>,
       <<0, -53, 32821187, 41549952>>, <<0, -53, 32694434, 21923599>>, <<0, -53, 32557721, 259635749>>,
       <<0, -53, 32411092, 122208021>>, <<0, -53, 32254590, 56523648>>, <<0, -53, 32088262, 242998048>>,
       <<0, -53, 31912161, 54809856>>, <<0, -53, 31726338, 201241803>>, <<0, -53, 31530852, 38939932>>,
       <<0, -53, 31325760, 251639813>>, <<0, -53, 31111127, 160942936>>, <<0, -53, 30887017, 137127534>>,
       <<0, -53, 30653498, 251625365>>, <<0, -53, 30410643, 3004264>>, <<0, -53, 30158523, 190200009>>,
       <<0, -53, 29897217, 222112877>>, <<0, -53, 29626804, 258811655>>, <<0, -53, 29347367, 131283399>>,
       <<0, -53, 29058990, 140004523>>, <<0, -53, 28761761, 242674398>>, <<0, -53, 28455772, 47032646>>,
       <<0, -53, 28141114, 145633243>>, <<0, -53, 27817884, 229174949>>, <<0, -53, 27486181, 152405830>>,
       <<0, -53, 27146105, 194507944>>, <<0, -53, 26797760, 245529107>>, <<0, -53, 26441253, 66347986>>,
       <<0, -53, 26076691, 85304105>>, <<0, -53, 25704186, 47140921>>, <<0, -53, 25323851, 77667384>>,
       <<0, -53, 24935802, 137608898>>, <<0, -53, 24540158, 13134211>>, <<0, -53, 24137038, 111496504>>,
       <<0, -53, 23726566, 109001677>>, <<0, -53, 23308867, 14709519>>, <<0, -53, 22884067, 160209964>>,
       <<0, -53, 22452297, 115477465>>, <<0, -53, 22013688, 20467668>>, <<0, -53, 21568373, 37492254>>,
       <<0, -53, 21116488, 71858877>>, <<0, -53, 20658171, 29215034>>, <<0, -53, 20193561, 72728245>>,
       <<0, -53, 19722800, 74799711>>, <<0, -53, 19246031, 142362999>>, <<0, -53, 18763400, 68287763>>,
       <<0, -53, 18275053, 124811039>>, <<0, -53, 17781139, 246209834>>, <<0, -53, 17281810, 16637717>>,
       <<0, -54, 33554431, 268435455>>, <<0, -54, 32535022, 233808111>>, <<0, -54, 31505703, 69488759>>,
       <<0, -54, 30466786, 189062658>>, <<0, -54, 29418589, 180225478>>, <<0, -54, 28361431, 121083988>>,
       <<0, -54, 27295634, 17177301>>, <<0, -54, 26221522, 43581355>>, <<0, -54, 25139422, 249927301>>,
       <<0, -54, 24049665, 265212731>>, <<0, -54, 22952583, 76155896>>, <<0, -54, 21848509, 52698>>,
       <<0, -54, 20737779, 120580433>>, <<0, -54, 19620732, 260298181>>, <<0, -54, 18497709, 221417002>>,
       <<0, -54, 17369052, 26412693>>, <<0, -55, 32470207, 48544029>>, <<0, -55, 30192419, 114148988>>,
       <<0, -55, 27905434, 205674741>>, <<0, -55, 25609949, 225862229>>, <<0, -55, 23306663, 235631495>>,
       <<0, -55, 20996278, 128471929>>, <<0, -55, 18679497, 109944341>>, <<0, -56, 32714052, 206529240>>,
       <<0, -56, 28059145, 188503935>>, <<0, -56, 23395691, 146964740>>, <<0, -56, 18725110, 225071416>>,
       <<0, -57, 28097652, 149932298>>, <<0, -57, 18736524, 167238720>>, <<0, -58, 18739378, 193584393>>,
       <<0, -105, 18506339, 51665927>>, <<1, -58, 18739378, 193584450>>, <<1, -57, 18736524, 167238685>>,
       <<1, -57, 28097652, 149932263>>, <<1, -56, 18725110, 225071398>>, <<1, -56, 23395691, 146964722>>,
       <<1, -56, 28059145, 188503918>>, <<1, -56, 32714052, 206529223>>, <<1, -55, 18679497, 109944348>>,
       <<1, -55, 20996278, 128471920>>, <<1, -55, 23306663, 235631502>>, <<1, -55, 25609949, 225862220>>,
       <<1, -55, 27905434, 205674748>>, <<1, -55, 30192419, 114148980>>, <<1, -55, 32470207, 48544021>>,
       <<1, -54, 17369052, 26412689>>, <<1, -54, 18497709, 221416998>>, <<1, -54, 19620732, 260298184>>,
       <<1, -54, 20737779, 120580429>>, <<1, -54, 21848509, 52701>>, <<1, -54, 22952583, 76155892>>,
       <<1, -54, 24049665, 265212735>>, <<1, -54, 25139422, 249927297>>, <<1, -54, 26221522, 43581351>>,
       <<1, -54, 27295634, 17177297>>, <<1, -54, 28361431, 121083984>>, <<1, -54, 29418589, 180225481>>,
       <<1, -54, 30466786, 189062655>>, <<1, -54, 31505703, 69488762>>, <<1, -54, 32535022, 233808107>>,
       <<1, -53, 16777216, 1>>, <<1, -53, 17281810, 16637715>>, <<1, -53, 17781139, 246209833>>,
       <<1, -53, 18275053, 124811037>>, <<1, -53, 18763400, 68287761>>, <<1, -53, 19246031, 142363001>>,
       <<1, -53, 19722800, 74799709>>, <<1, -53, 20193561, 72728247>>, <<1, -53, 20658171, 29215032>>,
       <<1, -53, 21116488, 71858879>>, <<1, -53, 21568373, 37492252>>, <<1, -53, 22013688, 20467666>>,
       <<1, -53, 22452297, 115477464>>, <<1, -53, 22884067, 160209962>>, <<1, -53, 23308867, 14709521>>,
       <<1, -53, 23726566, 109001676>>, <<1, -53, 24137038, 111496505>>, <<1, -53, 24540158, 13134210>>,
       <<1, -53, 24935802, 137608899>>, <<1, -53, 25323851, 77667383>>, <<1, -53, 25704186, 47140920>>,
       <<1, -53, 26076691, 85304101>>, <<1, -53, 26441253, 66347987>>, <<1, -53, 26797760, 245529108>>,
       <<1, -53, 27146105, 194507943>>, <<1, -53, 27486181, 152405829>>, <<1, -53, 27817884, 229174950>>,
       <<1, -53, 28141114, 145633244>>, <<1, -53, 28455772, 47032645>>, <<1, -53, 28761761, 242674396>>,
       <<1, -53, 29058990, 140004520>>, <<1, -53, 29347367, 131283400>>, <<1, -53, 29626804, 258811656>>,
       <<1, -53, 29897217, 222112876>>, <<1, -53, 30158523, 190200008>>, <<1, -53, 30410643, 3004264>>,
       <<1, -53, 30653498, 251625366>>, <<1, -53, 30887017, 137127534>>, <<1, -53, 31111127, 160942935>>,
       <<1, -53, 31325760, 251639812>>, <<1, -53, 31530852, 38939932>>, <<1, -53, 31726338, 201241803>>,
       <<1, -53, 31912161, 54809855>>, <<1, -53, 32088262, 242998046>>, <<1, -53, 32254590, 56523649>>,
       <<1, -53, 32411092, 122208021>>, <<1, -53, 32557721, 259635749>>, <<1, -53, 32694434, 21923598>>,
       <<1, -53, 32821187, 41549951>>, <<1, -53, 32937942, 154711746>>, <<1, -53, 33044664, 209787927>>,
       <<1, -53, 33141321, 70247515>>, <<1, -53, 33227882, 154178681>>, <<1, -53, 33304322, 94518924>>,
       <<1, -53, 33370617, 83388359>>, <<1, -53, 33426747, 68687266>>, <<1, -53, 33472695, 24182774>>,
       <<1, -53, 33508446, 219342365>>, <<1, -53, 33533991, 146736487>>, <<1, -53, 33549321, 133541770>>,
       <<1, -52, 16777216, 0>>, <<1, -53, 33549321, 133541770>>, <<1, -53, 33533991, 146736487>>,
       <<1, -53, 33508446, 219342365>>, <<1, -53, 33472695, 24182775>>, <<1, -53, 33426747, 68687266>>,
       <<1, -53, 33370617, 83388359>>, <<1, -53, 33304322, 94518923>>, <<1, -53, 33227882, 154178682>>,
       <<1, -53, 33141321, 70247516>>, <<1, -53, 33044664, 209787928>>, <<1, -53, 32937942, 154711745>>,
       <<1, -53, 32821187, 41549951>>, <<1, -53, 32694434, 21923599>>, <<1, -53, 32557721, 259635750>>,
       <<1, -53, 32411092, 122208022>>, <<1, -53, 32254590, 56523647>>, <<1, -53, 32088262, 242998047>>,
       <<1, -53, 31912161, 54809856>>, <<1, -53, 31726338, 201241804>>, <<1, -53, 31530852, 38939931>>,
       <<1, -53, 31325760, 251639813>>, <<1, -53, 31111127, 160942936>>, <<1, -53, 30887017, 137127536>>,
       <<1, -53, 30653498, 251625367>>, <<1, -53, 30410643, 3004263>>, <<1, -53, 30158523, 190200010>>,
       <<1, -53, 29897217, 222112878>>, <<1, -53, 29626804, 258811657>>, <<1, -53, 29347367, 131283397>>,
       <<1, -53, 29058990, 140004522>>, <<1, -53, 28761761, 242674398>>, <<1, -53, 28455772, 47032647>>,
       <<1, -53, 28141114, 145633246>>, <<1, -53, 27817884, 229174948>>, <<1, -53, 27486181, 152405831>>,
       <<1, -53, 27146105, 194507945>>, <<1, -53, 26797760, 245529110>>, <<1, -53, 26441253, 66347984>>,
       <<1, -53, 26076691, 85304103>>, <<1, -53, 25704186, 47140922>>, <<1, -53, 25323851, 77667385>>,
       <<1, -53, 24935802, 137608901>>, <<1, -53, 24540158, 13134209>>, <<1, -53, 24137038, 111496505>>,
       <<1, -53, 23726566, 109001678>>, <<1, -53, 23308867, 14709523>>, <<1, -53, 22884067, 160209961>>,
       <<1, -53, 22452297, 115477463>>, <<1, -53, 22013688, 20467669>>, <<1, -53, 21568373, 37492255>>,
       <<1, -53, 21116488, 71858881>>, <<1, -53, 20658171, 29215032>>, <<1, -53, 20193561, 72728246>>,
       <<1, -53, 19722800, 74799712>>, <<1, -53, 19246031, 142363004>>, <<1, -53, 18763400, 68287760>>,
       <<1, -53, 18275053, 124811036>>, <<1, -53, 17781139, 246209835>>, <<1, -53, 17281810, 16637718>>,
       <<1, -53, 16777216, 4>>, <<1, -54, 32535022, 233808106>>, <<1, -54, 31505703, 69488761>>,
       <<1, -54, 30466786, 189062660>>, <<1, -54, 29418589, 180225487>>, <<1, -54, 28361431, 121083983>>,
       <<1, -54, 27295634, 17177296>>, <<1, -54, 26221522, 43581357>>, <<1, -54, 25139422, 249927303>>,
       <<1, -54, 24049665, 265212741>>, <<1, -54, 22952583, 76155891>>, <<1, -54, 21848509, 52700>>,
       <<1, -54, 20737779, 120580435>>, <<1, -54, 19620732, 260298191>>, <<1, -54, 18497709, 221416997>>,
       <<1, -54, 17369052, 26412687>>, <<1, -55, 32470207, 48544034>>, <<1, -55, 30192419, 114148993>>,
       <<1, -55, 27905434, 205674761>>, <<1, -55, 25609949, 225862218>>, <<1, -55, 23306663, 235631499>>,
       <<1, -55, 20996278, 128471934>>, <<1, -55, 18679497, 109944361>>, <<1, -56, 32714052, 206529217>>,
       <<1, -56, 28059145, 188503912>>, <<1, -56, 23395691, 146964749>>, <<1, -56, 18725110, 225071424>>,
       <<1, -57, 28097652, 149932379>>, <<1, -57, 18736524, 167238674>>, <<1, -58, 18739378, 193584428>> >>

cos_radians(t) == LET c == CosTable[t + 1] IN Float(c[1], c[2], c[3], c[4])
sin_radians(t) == LET c == SinTable[t + 1] IN Float(c[1], c[2], c[3], c[4])

\* the literals 1.5 and 0.7
OnePointFive == Tenths(15)
ZeroPointSeven == Tenths(7)

\* A variant that starts at 1: range(1, 360).
thetaFromOne == [i \in 1..359 |-> i]

\* theta = [i for i in range(0, 360)]
theta == [i \in 1..360 |-> i - 1]

earth_orbit_x == [i \in 1..Len(theta) |-> cos_radians(theta[i])]
earth_orbit_y == [i \in 1..Len(theta) |-> sin_radians(theta[i])]
asteroid_orbit_x == [i \in 1..Len(theta) |-> FloatMul(OnePointFive, cos_radians(theta[i]))]
asteroid_orbit_y == [i \in 1..Len(theta) |-> FloatMul(ZeroPointSeven, sin_radians(theta[i]))]

\* [0] * 360
zeros == [i \in 1..360 |-> 0]

\* The three traces of the 3D figure: Earth's orbit, the asteroid's, Earth.
sampleOrbits ==
    << [name |-> "Earth Orbit", mode |-> "lines",
        x |-> earth_orbit_x, y |-> earth_orbit_y, z |-> zeros],
       [name |-> "Asteroid Orbit", mode |-> "lines",
        x |-> asteroid_orbit_x, y |-> asteroid_orbit_y, z |-> zeros],
       [name |-> "Earth", mode |-> "markers",
        x |-> <<0>>, y |-> <<0>>, z |-> <<0>>] >>

----------------------------------------------------------------------------
(* tab4: Mitigation Strategies *)

\* A variant with "or" in place of "and".
evaluateMitigationEither(dv, lt) ==
    IF dv > 0 \/ lt > 0
    THEN [kind |-> "success", text |-> "Earth is saved",
          delta_v |-> dv, lead_time |-> lt]
    ELSE [kind |-> "error",
          text |-> "No deflection applied. The asteroid impacts Earth."]

\* The success box's text is an f-string of both slider values.
evaluateMitigation(dv, lt) ==
    IF dv > 0 /\ lt > 0
    THEN [kind |-> "success", text |-> "Earth is saved",
          delta_v |-> dv, lead_time |-> lt]
    ELSE [kind |-> "error",
          text |-> "No deflection applied. The asteroid impacts Earth."]

----------------------------------------------------------------------------
(* one run of the script *)

\* A variant in which a deflection cannot save Earth from an asteroid of the
\* top tier: tab4 reads tab1's energy.
PageCoupled(impact, lat, lon, dv, lt) ==
    [mass |-> impact.mass,
     energy_joules |-> impact.energy_joules,
     energy_megatons |-> impact.energy_megatons,
     severity |-> classifySeverity(impact.energy_megatons),
     values |-> effectValues(impact.energy_megatons),
     deck |-> makeDeck(lat, lon),
     orbit_fig |-> sampleOrbits,
     mitigation |-> evaluateMitigation(
         IF FloatLess(impact.energy_megatons, FromInt(10000)) THEN dv ELSE 0, lt)]

\* What one run shows, given the results of tab1.
Page(impact, lat, lon, dv, lt) ==
    [mass |-> impact.mass,
     energy_joules |-> impact.energy_joules,
     energy_megatons |-> impact.energy_megatons,
     severity |-> classifySeverity(impact.energy_megatons),
     values |-> effectValues(impact.energy_megatons),
     deck |-> makeDeck(lat, lon),
     orbit_fig |-> sampleOrbits,
     mitigation |-> evaluateMitigation(dv, lt)]

Script(d, v, rho, lat, lon, dv, lt) ==
    Page(computeImpact(d, v, rho), lat, lon, dv, lt)

\* The page shows the results of a run.
Show(out) ==
    /\ mass' = out.mass
    /\ energy_joules' = out.energy_joules
    /\ energy_megatons' = out.energy_megatons
    /\ severity' = out.severity
    /\ values' = out.values
    /\ deck' = out.deck
    /\ orbit_fig' = out.orbit_fig
    /\ mitigation' = out.mitigation

\* A variant that keeps tab1's results from the run before, as a cache
\* without a key would.
RunStale(d, v, rho, lat, lon, dv, lt) ==
    /\ diameter' = d
    /\ velocity' = v
    /\ density' = rho
    /\ impact_lat' = lat
    /\ impact_lon' = lon
    /\ delta_v' = dv
    /\ lead_time' = lt
    /\ Show(Page([mass |-> mass, energy_joules |-> energy_joules,
                  energy_megatons |-> energy_megatons], lat, lon, dv, lt))

\* The widgets take the given values and the script runs from top to bottom.
Run(d, v, rho, lat, lon, dv, lt) ==
    /\ diameter' = d
    /\ velocity' = v
    /\ density' = rho
    /\ impact_lat' = lat
    /\ impact_lon' = lon
    /\ delta_v' = dv
    /\ lead_time' = lt
    /\ Show(Script(d, v, rho, lat, lon, dv, lt))

\* The values the model moves each widget to: its default and an end (or
\* both ends) of its range.
DiameterSamples == {DiameterMin, DiameterDefault, DiameterMax}
VelocitySamples == {VelocityDefault, VelocityMax}
DensitySamples == {DensityDefault, DensityMax}
LatSamples == {LatDefault, LatMin}
LonSamples == {LonDefault, LonMax}
DeltaVSamples == {DeltaVDefault, DeltaVMax}
LeadTimeSamples == {LeadTimeMin, LeadTimeDefault}

\* The page opens: every widget at its default, the script run once.
Init ==
    LET out == Script(DiameterDefault, VelocityDefault, DensityDefault,
                      LatDefault, LonDefault, DeltaVDefault, LeadTimeDefault)
    IN  /\ diameter = DiameterDefault
        /\ velocity = VelocityDefault
        /\ density = DensityDefault
        /\ impact_lat = LatDefault
        /\ impact_lon = LonDefault
        /\ delta_v = DeltaVDefault
        /\ lead_time = LeadTimeDefault
        /\ mass = out.mass
        /\ energy_joules = out.energy_joules
        /\ energy_megatons = out.energy_megatons
        /\ severity = out.severity
        /\ values = out.values
        /\ deck = out.deck
        /\ orbit_fig = out.orbit_fig
        /\ mitigation = out.mitigation

SetDiameter(x) ==
    x # diameter /\ Run(x, velocity, density, impact_lat, impact_lon, delta_v, lead_time)

SetVelocity(x) ==
    x # velocity /\ Run(diameter, x, density, impact_lat, impact_lon, delta_v, lead_time)

SetDensity(x) ==
    x # density /\ Run(diameter, velocity, x, impact_lat, impact_lon, delta_v, lead_time)

SetLatitude(x) ==
    x # impact_lat /\ Run(diameter, velocity, density, x, impact_lon, delta_v, lead_time)

SetLongitude(x) ==
    x # impact_lon /\ Run(diameter, velocity, density, impact_lat, x, delta_v, lead_time)

SetDeltaV(x) ==
    x # delta_v /\ Run(diameter, velocity, density, impact_lat, impact_lon, x, lead_time)

SetLeadTime(x) ==
    x # lead_time /\ Run(diameter, velocity, density, impact_lat, impact_lon, delta_v, x)

\* The user reruns the script without touching a widget.
Rerun ==
    Run(diameter, velocity, density, impact_lat, impact_lon, delta_v, lead_time)

Next ==
    \/ \E x \in DiameterSamples : SetDiameter(x)
    \/ \E x \in VelocitySamples : SetVelocity(x)
    \/ \E x \in DensitySamples : SetDensity(x)
    \/ \E x \in LatSamples : SetLatitude(x)
    \/ \E x \in LonSamples : SetLongitude(x)
    \/ \E x \in DeltaVSamples : SetDeltaV(x)
    \/ \E x \in LeadTimeSamples : SetLeadTime(x)
    \/ Rerun

Spec == Init /\ [][Next]_vars

----------------------------------------------------------------------------
(* The asteroid sliders alone, over the values next to the ends of their   *)
(* ranges as well: the steps where rounding could hide a change.           *)

\* how many values next to each end of a slider's range are tried
Near == 1

Grid(lo, dflt, hi) == (lo .. lo + Near) \cup {dflt} \cup (hi - Near .. hi)

NextImpact ==
    \/ \E x \in Grid(DiameterMin, DiameterDefault, DiameterMax) : SetDiameter(x)
    \/ \E x \in Grid(VelocityMin, VelocityDefault, VelocityMax) : SetVelocity(x)
    \/ \E x \in Grid(DensityMin, DensityDefault, DensityMax) : SetDensity(x)

SpecImpact == Init /\ [][NextImpact]_vars

----------------------------------------------------------------------------
(* tab2 as a function of energy_megatons, for energies the sliders cannot  *)
(* reach exactly: 0, the thresholds and the floats right next to them.     *)

\* how many floats on each side of an anchor are tried
MaxUlps == 2

RECURSIVE StepUlps(_, _)
StepUlps(x, k) ==
    IF k = 0 THEN x
    ELSE IF k > 0 THEN StepUlps(NextUp(x), k - 1)
    ELSE StepUlps(NextDown(x), k + 1)

EnergyAnchors ==
    {1, 50, 99, 100, 101, 999, 1000, 1001, 9999, 10000, 10001, 99999, 100000,
     100001, 999999, 1000000, 1000001, 1000000000}

EnergySamples ==
    {Zero}
    \cup {StepUlps(FromInt(n), k) : n \in EnergyAnchors, k \in -MaxUlps .. MaxUlps}
    \cup {computeImpact(d, v, rho).energy_megatons :
            d \in DiameterSamples, v \in VelocitySamples, rho \in DensitySamples}

\* No tab has run: only the widgets have values.
Blank ==
    /\ mass = Zero
    /\ energy_joules = Zero
    /\ energy_megatons = Zero
    /\ severity = NotShown
    /\ values = << >>
    /\ deck = NoDeck
    /\ orbit_fig = << >>
    /\ mitigation = NotShown

InitSeverity ==
    /\ diameter = DiameterDefault
    /\ velocity = VelocityDefault
    /\ density = DensityDefault
    /\ impact_lat = LatDefault
    /\ impact_lon = LonDefault
    /\ delta_v = DeltaVDefault
    /\ lead_time = LeadTimeDefault
    /\ mass = Zero
    /\ energy_joules = Zero
    /\ energy_megatons \in EnergySamples
    /\ severity = NotShown
    /\ values = << >>
    /\ deck = NoDeck
    /\ orbit_fig = << >>
    /\ mitigation = NotShown

\* tab2 runs on the energy at hand.
ImpactAnalysis ==
    /\ severity = NotShown
    /\ severity' = classifySeverity(energy_megatons)
    /\ values' = effectValues(energy_megatons)
    /\ UNCHANGED <<inputs, mass, energy_joules, energy_megatons, deck, orbit_fig, mitigation>>

SpecSeverity == InitSeverity /\ [][ImpactAnalysis]_vars

----------------------------------------------------------------------------
(* tab4 as a function of its two sliders, over their whole ranges.         *)

InitMitigation ==
    /\ diameter = DiameterDefault
    /\ velocity = VelocityDefault
    /\ density = DensityDefault
    /\ impact_lat = LatDefault
    /\ impact_lon = LonDefault
    /\ delta_v \in DeltaVMin .. DeltaVMax
    /\ lead_time \in LeadTimeMin .. LeadTimeMax
    /\ Blank

\* tab4 runs on the sliders' values.
MitigationStrategies ==
    /\ mitigation = NotShown
    /\ mitigation' = evaluateMitigation(delta_v, lead_time)
    /\ UNCHANGED <<inputs, mass, energy_joules, energy_megatons, severity, values, deck, orbit_fig>>

SpecMitigation == InitMitigation /\ [][MitigationStrategies]_vars

----------------------------------------------------------------------------
(* Properties of tab2, under SpecSeverity *)

Hundred == FromInt(100)
TenThousand == FromInt(10000)
One == FromInt(1)
Billion == FromInt(1000000000)

Regional == MessageBox("success", "Regional damage expected")
Continental == MessageBox("warning", "Severe continental effects likely")
Global == MessageBox("error", "Global catastrophe likely")

Rank(box) == IF box = Regional THEN 1 ELSE IF box = Continental THEN 2 ELSE 3

\* C1: once tab2 has run, the box shown is one of the three tiers: Regional
\* exactly when energy_megatons < 100, Continental exactly when
\* 100 <= energy_megatons < 10000, Global exactly when energy_megatons >= 10000;
\* and no smaller energy gets a higher tier.
C1_SeverityPartition ==
    severity # NotShown =>
        /\ severity \in {Regional, Continental, Global}
        /\ severity = Regional <=> FloatLess(energy_megatons, Hundred)
        /\ severity = Continental <=>
               (FloatLeq(Hundred, energy_megatons) /\ FloatLess(energy_megatons, TenThousand))
        /\ severity = Global <=> FloatLeq(TenThousand, energy_megatons)
        /\ \A e \in EnergySamples :
               FloatLeq(e, energy_megatons) => Rank(classifySeverity(e)) <= Rank(severity)

\* 100 itself is Continental.
C1_Witness == energy_megatons = Hundred /\ severity = Continental

\* C3: once tab2 has run, the three magnitudes are min(e/100, 100),
\* min(e/1000, 100) and min(e/10000, 100), each within [0, 100]; all three are
\* 0 for energy 0 and exactly 100 for energy 1e9.
C3_EffectMagnitudes ==
    severity # NotShown =>
        /\ Len(values) = 3
        /\ values[1] = Min(FloatDiv(energy_megatons, Hundred), Hundred)
        /\ values[2] = Min(FloatDiv(energy_megatons, FromInt(1000)), Hundred)
        /\ values[3] = Min(FloatDiv(energy_megatons, TenThousand), Hundred)
        /\ \A i \in 1..3 : FloatLeq(Zero, values[i]) /\ FloatLeq(values[i], Hundred)
        /\ IsZero(energy_megatons) => \A i \in 1..3 : IsZero(values[i])
        /\ energy_megatons = Billion => values = <<Hundred, Hundred, Hundred>>

\* Energy 1e9: every magnitude is clamped.
C3_Witness == energy_megatons = Billion /\ values = <<Hundred, Hundred, Hundred>>

\* C9: once tab2 has run, the tier is Regional exactly when the local
\* magnitude is below 1, Global exactly when the global magnitude is at least
\* 1, and Continental otherwise.
C9_TierAgreesWithMagnitudes ==
    severity # NotShown =>
        /\ severity = Regional <=> FloatLess(values[1], One)
        /\ severity = Global <=> FloatLeq(One, values[3])
        /\ severity = Continental <=>
               (~FloatLess(values[1], One) /\ ~FloatLeq(One, values[3]))

\* The largest float below 10000: still Continental, global magnitude below 1.
C9_Witness ==
    /\ energy_megatons = NextDown(TenThousand)
    /\ severity = Continental
    /\ FloatLess(values[3], One)
    /\ FloatLeq(One, values[1])

\* C10: once tab2 has run, local >= continental >= global >= 0, and two
\* neighbouring magnitudes are equal only when both are 0 or both are 100.
C10_MagnitudesOrdered ==
    severity # NotShown =>
        /\ FloatLeq(values[2], values[1])
        /\ FloatLeq(values[3], values[2])
        /\ FloatLeq(Zero, values[3])
        /\ \A i \in 1..2 :
               FloatEq(values[i], values[i + 1]) =>
                   \/ IsZero(values[i]) /\ IsZero(values[i + 1])
                   \/ values[i] = Hundred /\ values[i + 1] = Hundred

\* Energy 100000: local and continental are both clamped, global is not.
C10_Witness ==
    /\ energy_megatons = FromInt(100000)
    /\ severity = Global
    /\ values[1] = Hundred
    /\ values[2] = Hundred
    /\ values[3] = FromInt(10)

----------------------------------------------------------------------------
(* Properties of tab4, under SpecMitigation *)

\* C2: once tab4 has run, for delta_v in 0..50 and lead_time in 0..10 the
\* success box ("saved") is shown if and only if delta_v > 0 and
\* lead_time > 0, and the error box ("not saved") otherwise.
C2_SavedIffBothPositive ==
    mitigation # NotShown =>
        /\ delta_v \in 0..50 /\ lead_time \in 0..10
        /\ mitigation.kind \in {"success", "error"}
        /\ mitigation.kind = "success" <=> (delta_v > 0 /\ lead_time > 0)
        /\ mitigation.kind = "error" <=> (delta_v = 0 \/ lead_time = 0)

\* (10, 5) is saved.
C2_Witness == delta_v = 10 /\ lead_time = 5 /\ mitigation.kind = "success"

----------------------------------------------------------------------------
(* Properties of tab1 *)

AtDefaults ==
    diameter = DiameterDefault /\ velocity = VelocityDefault /\ density = DensityDefault

\* x rounds to the decimal n / scale, whose last digit is worth 1 / scale:
\* (2n - 1) / (2 scale) <= x < (2n + 1) / (2 scale).
RoundsTo(x, n, scale) ==
    /\ FloatLeq(FloatDiv(FromInt(2 * n - 1), FromInt(2 * scale)), x)
    /\ FloatLess(x, FloatDiv(FromInt(2 * n + 1), FromInt(2 * scale)))

\* mass is 4.2412e10 to the digits given: 42412 thousands of tonnes.
MassIsAsStated == RoundsTo(FloatDiv(mass, FromInt(1000000)), 42412, 1)

\* C4 as stated: with the sliders at their defaults (300, 20, 3000), mass is
\* 4.2412e10 kg and energy_megatons is 202.8, to the digits given.
C4_AsStated ==
    AtDefaults => MassIsAsStated /\ RoundsTo(energy_megatons, 2028, 10)

\* C4: with the sliders at their defaults (300, 20, 3000), mass is 4.2412e10 kg
\* and energy_megatons is 2027.3, to the digits given.
C4_DefaultsEnergy ==
    AtDefaults => MassIsAsStated /\ RoundsTo(energy_megatons, 20273, 10)

\* The defaults, reached again after the sliders have moved.
C4_Witness ==
    /\ AtDefaults
    /\ impact_lat = LatMin
    /\ delta_v = DeltaVMax
    /\ severity = Continental
    /\ RoundsTo(energy_megatons, 20273, 10)

\* C5: a rerun in which one of diameter, velocity, density has grown and the
\* other two are as before shows strictly larger energy_joules and
\* energy_megatons, and a strictly larger mass unless velocity is the one that
\* grew, in which case mass is the same.
C5_StrictlyIncreasing ==
    [][ /\ (diameter' > diameter /\ velocity' = velocity /\ density' = density) =>
              /\ FloatLess(mass, mass')
              /\ FloatLess(energy_joules, energy_joules')
              /\ FloatLess(energy_megatons, energy_megatons')
        /\ (velocity' > velocity /\ diameter' = diameter /\ density' = density) =>
              /\ mass' = mass
              /\ FloatLess(energy_joules, energy_joules')
              /\ FloatLess(energy_megatons, energy_megatons')
        /\ (density' > density /\ diameter' = diameter /\ velocity' = velocity) =>
              /\ FloatLess(mass, mass')
              /\ FloatLess(energy_joules, energy_joules')
              /\ FloatLess(energy_megatons, energy_megatons')
      ]_vars

\* Every slider one step above its least value: each has grown by the
\* smallest amount.
C5_Witness ==
    /\ diameter = DiameterMin + 1
    /\ velocity = VelocityMin + 1
    /\ density = DensityMin + 1
    /\ FloatLess(massOf(DiameterMin, DensityMin), mass)
    /\ FloatLess(computeImpact(DiameterMin, VelocityMin, DensityMin).energy_megatons,
                 energy_megatons)

----------------------------------------------------------------------------
(* Properties of the whole page, under Spec *)

EarthOrbit == orbit_fig[1]
AsteroidOrbit == orbit_fig[2]

Abs(x) == [x EXCEPT !.s = 0]

\* |x| < 1e-9
ApproxZero(x) == FloatLess(Abs(x), FloatDiv(One, Billion))

\* C6: both orbit curves have x, y and z of length 360; z is 0 throughout;
\* sample i is the point for degree i - 1, so the degrees 0..359 come in
\* increasing order; at degree 0 Earth's curve is at (1, 0, 0) and the
\* asteroid's at (1.5, 0, 0); at degree 90 they are at (~0, 1, 0) and
\* (~0, 0.7, 0).
C6_OrbitSamples ==
    /\ Len(orbit_fig) = 3
    /\ \A c \in {EarthOrbit, AsteroidOrbit} :
           /\ Len(c.x) = 360 /\ Len(c.y) = 360 /\ Len(c.z) = 360
           /\ \A i \in 1..360 : c.z[i] = 0
    /\ \A i \in 1..360 :
           /\ EarthOrbit.x[i] = cos_radians(i - 1)
           /\ EarthOrbit.y[i] = sin_radians(i - 1)
           /\ AsteroidOrbit.x[i] = FloatMul(OnePointFive, cos_radians(i - 1))
           /\ AsteroidOrbit.y[i] = FloatMul(ZeroPointSeven, sin_radians(i - 1))
    /\ EarthOrbit.x[1] = One /\ IsZero(EarthOrbit.y[1])
    /\ AsteroidOrbit.x[1] = OnePointFive /\ IsZero(AsteroidOrbit.y[1])
    /\ ApproxZero(EarthOrbit.x[91]) /\ EarthOrbit.y[91] = One
    /\ ApproxZero(AsteroidOrbit.x[91]) /\ AsteroidOrbit.y[91] = ZeroPointSeven

\* The figure after the asteroid and the place have changed; cos(90 degrees)
\* is small but not 0.
C6_Witness ==
    /\ diameter = DiameterMax
    /\ impact_lon = LonMax
    /\ Len(EarthOrbit.x) = 360
    /\ ~IsZero(EarthOrbit.x[91])
    /\ AsteroidOrbit.y[91] = ZeroPointSeven

Shown ==
    [mass |-> mass, energy_joules |-> energy_joules, energy_megatons |-> energy_megatons,
     severity |-> severity, values |-> values, deck |-> deck, orbit_fig |-> orbit_fig,
     mitigation |-> mitigation]

\* C7: in every reachable state, whatever the widget changes that led to it,
\* each output shown (mass, energies, severity, magnitudes, map, orbits,
\* mitigation) is what one run of the script on the current widget values
\* gives; so states with the same inputs show the same outputs.
C7_OutputsFromCurrentInputs ==
    Shown = Script(diameter, velocity, density, impact_lat, impact_lon, delta_v, lead_time)

\* Every widget has been moved away from its default.
C7_Witness ==
    /\ diameter = DiameterMin
    /\ velocity = VelocityMax
    /\ density = DensityMax
    /\ impact_lat = LatMin
    /\ impact_lon = LonMax
    /\ delta_v = DeltaVMax
    /\ lead_time = LeadTimeMin
    /\ mitigation.kind = "error"
    /\ deck = makeDeck(LatMin, LonMax)

\* C8: a rerun that leaves delta_v and lead_time as they were leaves the
\* mitigation box as it was, whatever happened to diameter, velocity,
\* density, latitude and longitude; no rerun changes the orbit figure; and a
\* rerun that leaves diameter, velocity and density as they were leaves the
\* severity box and the magnitudes as they were.
C8_NonInterference ==
    [][ /\ (delta_v' = delta_v /\ lead_time' = lead_time) => mitigation' = mitigation
        /\ orbit_fig' = orbit_fig
        /\ (diameter' = diameter /\ velocity' = velocity /\ density' = density) =>
              (severity' = severity /\ values' = values)
      ]_vars

\* Earth saved from an asteroid of the top tier, the place moved as well.
C8_Witness ==
    /\ delta_v = DeltaVMax
    /\ lead_time = LeadTimeDefault
    /\ mitigation.kind = "success"
    /\ diameter = DiameterMax
    /\ severity = Global
    /\ impact_lat = LatMin

====
